---- MODULE Spec2Model ----
(***************************************************************************)
(* A model of interval-rs: raw intervals (src/src/raw_interval.rs) and the *)
(* Selection / TineSet collection built on them (src/src/selection.rs),    *)
(* over a domain T without successor/predecessor (the default NextLower /  *)
(* NextUpper implementations and the do-nothing Normalize).                *)
(***************************************************************************)
EXTENDS Integers, Sequences, FiniteSets, TLC

\* ------------------------------------------------------------------ bounds
\* Number of distinct endpoint values an inserted interval may use.
NumEnds == 3
\* Number of union_interval calls on the selection under construction.
MaxIns == 3
\* Number of union_interval calls on each operand of a binary operation.
MaxBuild == 2
\* The greatest value of the finite integer type (its least value is MinT).
MaxT == 4

\* The number of endpoint values of the open intervals of a chain.
NumChainEnds == 4

\* Endpoints are the odd values, so that every pair of endpoints has a point
\* of the domain strictly between them and one below / above all of them.
Ends == {2 * i - 1 : i \in 1..NumEnds}
Dom == 0..(2 * NumEnds)

\* Option::None of a Tine's point.
NoPoint == -1

\* The least value of the finite integer type, an unsigned one.
MinT == 0

\* ------------------------------------------------------------------ Bound
Include(p) == [b |-> "Include", v |-> p]
Exclude(p) == [b |-> "Exclude", v |-> p]
Infinite == [b |-> "Infinite", v |-> NoPoint]
\* Option<Bound>::None
NoBound == [b |-> "None", v |-> NoPoint]

\* as_ref: the value of the bound; an infinite bound has none.
as_ref(x) == x.v

is_inclusive(x) == x.b = "Include"
is_exclusive(x) == x.b = "Exclude"

\* The greater of two lower bounds; exclusive wins on a tie.
greatest_intersect(x, y) ==
    IF x.b = "Infinite" THEN y
    ELSE IF y.b = "Infinite" THEN x
    ELSE IF x.v > y.v THEN x
    ELSE IF y.v > x.v THEN y
    ELSE IF is_exclusive(x) THEN x ELSE y

\* The lesser of two upper bounds; exclusive wins on a tie.
least_intersect(x, y) ==
    IF x.b = "Infinite" THEN y
    ELSE IF y.b = "Infinite" THEN x
    ELSE IF x.v < y.v THEN x
    ELSE IF y.v < x.v THEN y
    ELSE IF is_exclusive(x) THEN x ELSE y

\* The lesser of two lower bounds; inclusive wins on a tie.
least_union(x, y) ==
    IF x.b = "Infinite" \/ y.b = "Infinite" THEN Infinite
    ELSE IF x.v < y.v THEN x
    ELSE IF y.v < x.v THEN y
    ELSE IF is_inclusive(x) THEN x ELSE y

\* The greater of two upper bounds; inclusive wins on a tie.
greatest_union(x, y) ==
    IF x.b = "Infinite" \/ y.b = "Infinite" THEN Infinite
    ELSE IF x.v > y.v THEN x
    ELSE IF y.v > x.v THEN y
    ELSE IF is_inclusive(x) THEN x ELSE y

\* ------------------------------------------------------------ RawInterval
Empty == [k |-> "Empty", l |-> NoPoint, r |-> NoPoint]
Point(p) == [k |-> "Point", l |-> p, r |-> p]
Open(l, r) == [k |-> "Open", l |-> l, r |-> r]
LeftOpen(l, r) == [k |-> "LeftOpen", l |-> l, r |-> r]
RightOpen(l, r) == [k |-> "RightOpen", l |-> l, r |-> r]
Closed(l, r) == [k |-> "Closed", l |-> l, r |-> r]
UpTo(p) == [k |-> "UpTo", l |-> NoPoint, r |-> p]
UpFrom(p) == [k |-> "UpFrom", l |-> p, r |-> NoPoint]
To(p) == [k |-> "To", l |-> NoPoint, r |-> p]
From(p) == [k |-> "From", l |-> p, r |-> NoPoint]
Full == [k |-> "Full", l |-> NoPoint, r |-> NoPoint]

open(l, u) == IF l < u THEN Open(l, u) ELSE Empty

left_open(l, u) ==
    IF l < u THEN LeftOpen(l, u) ELSE IF l = u THEN Point(u) ELSE Empty

right_open(l, u) ==
    IF l < u THEN RightOpen(l, u) ELSE IF l = u THEN Point(l) ELSE Empty

closed(l, u) ==
    IF l < u THEN Closed(l, u) ELSE IF l = u THEN Point(l) ELSE Empty

new(lower, upper) ==
    CASE lower.b = "Include" /\ upper.b = "Include" -> closed(lower.v, upper.v)
      [] lower.b = "Include" /\ upper.b = "Exclude" -> right_open(lower.v, upper.v)
      [] lower.b = "Include" /\ upper.b = "Infinite" -> From(lower.v)
      [] lower.b = "Exclude" /\ upper.b = "Include" -> left_open(lower.v, upper.v)
      [] lower.b = "Exclude" /\ upper.b = "Exclude" -> open(lower.v, upper.v)
      [] lower.b = "Exclude" /\ upper.b = "Infinite" -> UpFrom(lower.v)
      [] lower.b = "Infinite" /\ upper.b = "Include" -> To(upper.v)
      [] lower.b = "Infinite" /\ upper.b = "Exclude" -> UpTo(upper.v)
      [] lower.b = "Infinite" /\ upper.b = "Infinite" -> Full

lower_bound(x) ==
    CASE x.k = "Empty" -> NoBound
      [] x.k = "Point" -> Include(x.l)
      [] x.k = "Open" -> Exclude(x.l)
      [] x.k = "LeftOpen" -> Exclude(x.l)
      [] x.k = "RightOpen" -> Include(x.l)
      [] x.k = "Closed" -> Include(x.l)
      [] x.k = "UpTo" -> Infinite
      [] x.k = "UpFrom" -> Exclude(x.l)
      [] x.k = "To" -> Infinite
      [] x.k = "From" -> Include(x.l)
      [] x.k = "Full" -> Infinite

upper_bound(x) ==
    CASE x.k = "Empty" -> NoBound
      [] x.k = "Point" -> Include(x.r)
      [] x.k = "Open" -> Exclude(x.r)
      [] x.k = "LeftOpen" -> Include(x.r)
      [] x.k = "RightOpen" -> Exclude(x.r)
      [] x.k = "Closed" -> Include(x.r)
      [] x.k = "UpTo" -> Exclude(x.r)
      [] x.k = "UpFrom" -> Infinite
      [] x.k = "To" -> Include(x.r)
      [] x.k = "From" -> Infinite
      [] x.k = "Full" -> Infinite

\* Option<T>: NoPoint when the bound is missing or infinite.
infimum(x) == lower_bound(x).v
supremum(x) == upper_bound(x).v

is_empty(x) == x.k = "Empty"

contains(x, p) ==
    CASE x.k = "Empty" -> FALSE
      [] x.k = "Point" -> p = x.l
      [] x.k = "Open" -> p > x.l /\ p < x.r
      [] x.k = "LeftOpen" -> p > x.l /\ p <= x.r
      [] x.k = "RightOpen" -> p >= x.l /\ p < x.r
      [] x.k = "Closed" -> p >= x.l /\ p <= x.r
      [] x.k = "UpTo" -> p < x.r
      [] x.k = "UpFrom" -> p > x.l
      [] x.k = "To" -> p <= x.r
      [] x.k = "From" -> p >= x.l
      [] x.k = "Full" -> TRUE

\* An intersect that builds the interval from the two bounds without looking
\* for a lower and an upper bound that meet at one point.
intersect_unchecked(x, y) ==
    IF lower_bound(x) = NoBound \/ lower_bound(y) = NoBound THEN Empty
    ELSE new(greatest_intersect(lower_bound(x), lower_bound(y)),
             least_intersect(upper_bound(x), upper_bound(y)))


intersect(x, y) ==
    IF lower_bound(x) = NoBound \/ lower_bound(y) = NoBound THEN Empty
    ELSE LET lb == greatest_intersect(lower_bound(x), lower_bound(y))
             ub == least_intersect(upper_bound(x), upper_bound(y))
         IN  IF as_ref(lb) = as_ref(ub)
                /\ ((is_inclusive(lb) /\ is_exclusive(ub))
                    \/ (is_exclusive(lb) /\ is_inclusive(ub)))
             THEN Empty
             ELSE new(lb, ub)

\* Display for RawInterval: the text written, with "inf" standing for the
\* infinity sign and "O" for the empty-set sign.
fmt(x) ==
    CASE x.k = "Empty" -> "O"
      [] x.k = "Point" -> ToString(x.l)
      [] x.k = "Open" -> "(" \o ToString(x.l) \o ", " \o ToString(x.r) \o ")"
      [] x.k = "LeftOpen" -> "(" \o ToString(x.l) \o ", " \o ToString(x.r) \o "]"
      [] x.k = "RightOpen" -> "[" \o ToString(x.l) \o ", " \o ToString(x.r) \o ")"
      [] x.k = "Closed" -> "[" \o ToString(x.l) \o ", " \o ToString(x.r) \o "]"
      [] x.k = "UpTo" -> "(-inf, " \o ToString(x.r) \o ")"
      [] x.k = "UpFrom" -> "(" \o ToString(x.l) \o ", inf)"
      [] x.k = "To" -> "(-inf, " \o ToString(x.r) \o ")"
      [] x.k = "From" -> "(" \o ToString(x.l) \o ", inf)"
      [] x.k = "Full" -> "(-inf, inf)"

\* An enclose that keeps only the bounds of its first operand.
enclose_first(x, y) == x

enclose(x, y) ==
    IF lower_bound(x) = NoBound /\ lower_bound(y) = NoBound THEN Empty
    ELSE LET lb == IF lower_bound(y) = NoBound THEN lower_bound(x)
                   ELSE IF lower_bound(x) = NoBound THEN lower_bound(y)
                   ELSE least_union(lower_bound(x), lower_bound(y))
             ub == IF upper_bound(y) = NoBound THEN upper_bound(x)
                   ELSE IF upper_bound(x) = NoBound THEN upper_bound(y)
                   ELSE greatest_union(upper_bound(x), upper_bound(y))
         IN  new(lb, ub)

\* intervals.fold(acc, |acc, i| acc.enclose(&i))
RECURSIVE enclose_fold(_, _)
enclose_fold(acc, intervals) ==
    IF intervals = <<>> THEN acc
    ELSE enclose_fold(enclose(acc, Head(intervals)), Tail(intervals))

enclose_all(intervals) == enclose_fold(Full, intervals)

\* Whether a lower and an upper bound meet at one point, one of them
\* inclusive and the other exclusive.
union_adjacent(x, y) ==
    /\ x.b \in {"Include", "Exclude"}
    /\ y.b \in {"Include", "Exclude"}
    /\ x.v = y.v
    /\ x.b # y.b

adjacent(self, other) ==
    LET a == IF lower_bound(self) # NoBound /\ upper_bound(other) # NoBound
             THEN union_adjacent(lower_bound(self), upper_bound(other))
             ELSE FALSE
        b == IF upper_bound(self) # NoBound /\ lower_bound(other) # NoBound
             THEN union_adjacent(lower_bound(other), upper_bound(self))
             ELSE FALSE
    IN  a \/ b

\* --------------------------------------------------- Interval (the wrapper)
\* Interval::new of selection.rs takes Option<Bound>, None being unbounded.
IntervalNew(lower, upper) ==
    new(IF lower = NoBound THEN Infinite ELSE lower,
        IF upper = NoBound THEN Infinite ELSE upper)

is_degenerate(x) == x.k = "Point"
is_left_open(x) == x.k \in {"Open", "LeftOpen", "UpFrom", "UpTo", "To", "Full"}
is_right_open(x) == x.k \in {"Open", "RightOpen", "UpTo", "UpFrom", "From", "Full"}

\* Normalize for a domain that is not Finite: do nothing.
normalize(x) == x

\* Interval::intersect: the raw intersect, wrapped again.
IntervalIntersect(x, y) == normalize(intersect(x, y))

\* The intervals a caller can construct over Ends with the constructors
\* (reversed or collapsing endpoints give Empty or a Point).
Intervals ==
    {Point(p) : p \in Ends}
    \cup {open(l, r) : l, r \in Ends} \cup {left_open(l, r) : l, r \in Ends}
    \cup {right_open(l, r) : l, r \in Ends} \cup {closed(l, r) : l, r \in Ends}
    \cup {UpTo(p) : p \in Ends} \cup {UpFrom(p) : p \in Ends}
    \cup {To(p) : p \in Ends} \cup {From(p) : p \in Ends}
    \cup {Full}

\* The interval lists of at most MaxBuild intervals.
BuildLists == UNION {[1..n -> Intervals] : n \in 0..MaxBuild}

\* ------------------------------------------------------------------- Tine
Tine(point, lb, ub, incl) ==
    [point |-> point, lb |-> lb, ub |-> ub, incl |-> incl]

is_point(t) == ~t.lb /\ ~t.ub /\ t.incl /\ t.point # NoPoint

from_degenerate_interval(x) ==
    Tine(infimum(normalize(x)), TRUE, TRUE, TRUE)

\* The pair <<left, right>>.
from_nondegenerate_interval(x) ==
    LET n == normalize(x)
    IN  << Tine(infimum(n), TRUE, FALSE, ~is_left_open(n)),
           Tine(supremum(n), FALSE, TRUE, ~is_right_open(n)) >>

\* Split: <<>> is None, <<t>> is One(t), <<l, u>> is Two(l, u).
from_interval(x) ==
    IF is_empty(x) THEN <<>>
    ELSE IF is_degenerate(x) THEN << from_degenerate_interval(x) >>
    ELSE from_nondegenerate_interval(x)

\* Option<Tine>: <<>> is None, <<t>> is Some(t).
merge(self, other) ==
    LET merged == Tine(self.point, self.lb \/ other.lb, self.ub \/ other.ub,
                       self.incl \/ other.incl)
    IN  IF merged.lb /\ merged.ub /\ merged.incl THEN <<>> ELSE << merged >>

into_bound_lower(t) ==
    IF t.point = NoPoint THEN NoBound
    ELSE IF t.incl THEN Include(t.point) ELSE Exclude(t.point)

into_bound_upper(t) ==
    IF t.point = NoPoint THEN NoBound
    ELSE IF t.incl THEN Include(t.point) ELSE Exclude(t.point)

\* Ord for Tine: -1 Less, 0 Equal, 1 Greater, 2 the "invalid Tine" panic.
cmp(self, other) ==
    IF self.point # NoPoint /\ other.point # NoPoint
    THEN (IF self.point < other.point THEN -1
          ELSE IF self.point > other.point THEN 1 ELSE 0)
    ELSE IF self.point = NoPoint /\ other.point # NoPoint
    THEN (IF self.lb THEN -1 ELSE 1)
    ELSE IF self.point # NoPoint /\ other.point = NoPoint
    THEN (IF other.lb THEN 1 ELSE -1)
    ELSE IF self.lb /\ ~self.ub /\ other.lb /\ ~other.ub THEN 0
    ELSE IF ~self.lb /\ self.ub /\ ~other.lb /\ other.ub THEN 0
    ELSE IF self.lb /\ ~self.ub /\ ~other.lb /\ other.ub THEN -1
    ELSE IF ~self.lb /\ self.ub /\ other.lb /\ ~other.ub THEN 1
    ELSE 2

\* ------------------------------------------- BTreeSet<Tine>, kept in order
\* A set is the sequence of its elements in ascending cmp order; no two
\* elements compare Equal.
BTreeContains(S, t) == \E i \in 1..Len(S) : cmp(S[i], t) = 0

\* split_off(&t): what stays in the set (< t) and what is returned (>= t).
SplitKeep(S, t) == SelectSeq(S, LAMBDA x : cmp(x, t) < 0)
SplitOff(S, t) == SelectSeq(S, LAMBDA x : cmp(x, t) >= 0)

\* insert: an element that compares Equal to a stored one is not stored,
\* and the stored one is not updated.
BTreeInsert(S, t) ==
    IF BTreeContains(S, t) THEN S
    ELSE SplitKeep(S, t) \o << t >> \o SplitOff(S, t)

\* remove / take: drops the element comparing Equal to t.
BTreeRemove(S, t) == SelectSeq(S, LAMBDA x : cmp(x, t) # 0)

RECURSIVE BTreeExtend(_, _)
BTreeExtend(S, R) ==
    IF R = <<>> THEN S ELSE BTreeExtend(BTreeInsert(S, Head(R)), Tail(R))

\* Option of the first / last element.
First(S) == IF S = <<>> THEN <<>> ELSE << S[1] >>
Last(S) == IF S = <<>> THEN <<>> ELSE << S[Len(S)] >>

\* ---------------------------------------------------------------- TineSet
\* The default NextLower / NextUpper: no neighbouring point.
next_lower(pt) == NoPoint
next_upper(pt) == NoPoint

\* Three probe tines at the point; BTreeSet::contains finds a stored tine
\* that compares Equal to the probe.
contains_pt(S, point) ==
    IF BTreeContains(S, Tine(point, TRUE, FALSE, TRUE)) THEN TRUE
    ELSE IF BTreeContains(S, Tine(point, FALSE, TRUE, TRUE)) THEN TRUE
    ELSE BTreeContains(S, Tine(point, FALSE, FALSE, TRUE))

RECURSIVE widen_l(_, _)
widen_l(S, tine) ==
    LET lb == IF tine.point = NoPoint THEN NoPoint ELSE next_lower(tine.point)
    IN  IF lb # NoPoint /\ contains_pt(S, lb)
        THEN widen_l(S, [tine EXCEPT !.point = lb])
        ELSE tine

RECURSIVE widen_r(_, _)
widen_r(S, tine) ==
    LET ub == IF tine.point = NoPoint THEN NoPoint ELSE next_upper(tine.point)
    IN  IF ub # NoPoint /\ contains_pt(S, ub)
        THEN widen_r(S, [tine EXCEPT !.point = ub])
        ELSE tine

widen(S, tines) ==
    IF Len(tines) = 0 THEN <<>>
    ELSE IF Len(tines) = 1
    THEN LET pt == tines[1]
             new_l == widen_l(S, [pt EXCEPT !.ub = FALSE, !.lb = TRUE])
             new_r == widen_r(S, [pt EXCEPT !.ub = TRUE, !.lb = FALSE])
         IN  IF new_l.point = new_r.point THEN << pt >> ELSE << new_l, new_r >>
    ELSE << widen_l(S, tines[1]), widen_r(S, tines[2]) >>

\* The result of a mutator: the set it leaves and whether it panicked. dbg
\* says whether debug assertions are compiled in.
Ret(S, panic) == [set |-> S, panic |-> panic]

union_pt(S, tine, dbg) ==
    IF dbg /\ (~tine.lb \/ ~tine.ub) THEN Ret(S, TRUE)
    ELSE IF S = <<>> THEN Ret(BTreeInsert(S, tine), FALSE)
    ELSE LET self0 == SplitKeep(S, tine)
             r_set == SplitOff(S, tine)
             before == Last(self0)
             after == First(r_set)
             r_new ==
                 IF after # <<>> /\ tine.point = after[1].point
                 THEN LET merged == merge(tine, after[1])
                      IN  IF merged # <<>> THEN BTreeInsert(r_set, merged[1])
                          ELSE BTreeRemove(r_set, after[1])
                 ELSE IF before # <<>> /\ after # <<>>
                         /\ before[1].ub /\ after[1].lb
                 THEN BTreeInsert(r_set, tine)
                 ELSE IF before # <<>> /\ after # <<>> THEN r_set
                 ELSE BTreeInsert(r_set, tine)
         IN  Ret(BTreeExtend(self0, r_new), FALSE)

\* The match on (lb, ub) that ends union_normal: self0 is what split_off left
\* in the set, r_set the tines above the interval, lb and ub the merged
\* Options. A failed debug assertion leaves the set as split.
union_normal_join(self0, r_set, lb, ub, dbg) ==
    LET before == Last(self0)
        after == First(r_set)
        before_lb == before # <<>> /\ before[1].lb
        before_ub == before # <<>> /\ before[1].ub
        after_lb == after # <<>> /\ after[1].lb
        after_ub == after # <<>> /\ after[1].ub
    IN  IF lb = <<>> /\ ub = <<>>
        THEN IF dbg /\ (~before_lb \/ ~after_ub) THEN Ret(self0, TRUE)
             ELSE Ret(BTreeExtend(self0, r_set), FALSE)
        ELSE IF ub = <<>>
        THEN IF dbg /\ ~after_ub THEN Ret(self0, TRUE)
             ELSE Ret(BTreeExtend(self0, BTreeInsert(r_set, lb[1])), FALSE)
        ELSE IF lb = <<>>
        THEN IF dbg /\ ~before_lb THEN Ret(self0, TRUE)
             ELSE Ret(BTreeExtend(self0, BTreeInsert(r_set, ub[1])), FALSE)
        ELSE LET r_set4 ==
                     IF before = <<>> \/ before_ub \/ (before_lb /\ lb[1].ub)
                     THEN BTreeInsert(r_set, lb[1]) ELSE r_set
                 r_set5 ==
                     IF after = <<>> \/ after_lb \/ (after_ub /\ ub[1].lb)
                     THEN BTreeInsert(r_set4, ub[1]) ELSE r_set4
             IN  Ret(BTreeExtend(self0, r_set5), FALSE)

\* The second split of union_normal: r_set holds the tines above l_tine,
\* lb is the merged lower tine. Everything below r_tine is dropped, and a
\* tine at r_tine's point is taken out and merged.
union_normal_upper(self0, r_set, lb, r_tine, dbg) ==
    LET r_set2 == SplitOff(r_set, r_tine)
        n_r == First(r_set2)
        hit_r == n_r # <<>> /\ r_tine.point = n_r[1].point
    IN  union_normal_join(
            self0,
            IF hit_r THEN BTreeRemove(r_set2, n_r[1]) ELSE r_set2,
            lb,
            IF hit_r THEN merge(r_tine, n_r[1]) ELSE << r_tine >>,
            dbg)

union_normal(S, l_tine, r_tine, dbg) ==
    IF dbg /\ (~l_tine.lb \/ ~r_tine.ub) THEN Ret(S, TRUE)
    ELSE IF S = <<>> \/ (l_tine.point = NoPoint /\ r_tine.point = NoPoint)
    THEN Ret(BTreeInsert(BTreeInsert(<<>>, l_tine), r_tine), FALSE)
    ELSE LET r_set0 == SplitOff(S, l_tine)
             n_l == First(r_set0)
             hit_l == n_l # <<>> /\ l_tine.point = n_l[1].point
         IN  union_normal_upper(
                 SplitKeep(S, l_tine),
                 IF hit_l THEN BTreeRemove(r_set0, n_l[1]) ELSE r_set0,
                 IF hit_l THEN merge(l_tine, n_l[1]) ELSE << l_tine >>,
                 r_tine,
                 dbg)

\* The match on the widened tines that ends union_interval.
union_tines(S, tines, dbg) ==
    IF Len(tines) = 1 THEN union_pt(S, tines[1], dbg)
    ELSE union_normal(S, tines[1], tines[2], dbg)

union_interval(S, interval, dbg) ==
    IF is_empty(interval) THEN Ret(S, FALSE)
    ELSE union_tines(S, widen(S, from_interval(interval)), dbg)

\* FromIterator / from_intervals: union_interval of each interval in turn.
RECURSIVE from_intervals_into(_, _, _)
from_intervals_into(dm, intervals, dbg) ==
    IF intervals = <<>> THEN Ret(dm, FALSE)
    ELSE LET u == union_interval(dm, Head(intervals), dbg)
         IN  IF u.panic THEN u
             ELSE from_intervals_into(u.set, Tail(intervals), dbg)

from_intervals(intervals, dbg) == from_intervals_into(<<>>, intervals, dbg)

\* ------------------------------------------------------------------- Iter
\* An iterator over a tine set: the index of the next tine and the saved tine.
IterStart == [i |-> 1, saved |-> <<>>]

Yield(item, it) == [kind |-> "some", item |-> item, it |-> it]
IterEnd(it) == [kind |-> "none", item |-> Empty, it |-> it]
IterPanic(it) == [kind |-> "panic", item |-> Empty, it |-> it]

\* Iter::next / SelectionIter::next.
IterNext(S, it, dbg) ==
    IF it.saved # <<>>
    THEN LET saved == it.saved[1]
         IN  IF dbg /\ ~saved.lb THEN IterPanic(it)
             ELSE IF it.i > Len(S) THEN IterPanic(it)
             ELSE LET second == S[it.i]
                  IN  IF dbg /\ ~second.ub THEN IterPanic(it)
                      ELSE Yield(IntervalNew(into_bound_lower(saved),
                                             into_bound_upper(second)),
                                 [i |-> it.i + 1,
                                  saved |-> IF second.lb THEN << second >>
                                            ELSE <<>>])
    ELSE IF it.i <= Len(S)
    THEN LET first == S[it.i]
         IN  IF dbg /\ ~first.lb THEN IterPanic(it)
             ELSE IF is_point(first)
             THEN Yield(Point(first.point), [i |-> it.i + 1, saved |-> <<>>])
             ELSE IF it.i + 1 > Len(S) THEN IterPanic(it)
             ELSE LET second == S[it.i + 1]
                  IN  IF dbg /\ ~second.ub THEN IterPanic(it)
                      ELSE Yield(IntervalNew(into_bound_lower(first),
                                             into_bound_upper(second)),
                                 [i |-> it.i + 2,
                                  saved |-> IF second.lb THEN << second >>
                                            ELSE <<>>])
    ELSE IterEnd(it)

\* A complete iteration: the intervals yielded, and whether it ended in a
\* panic instead of None.
RECURSIVE IterRun(_, _, _, _)
IterRun(S, it, acc, dbg) ==
    LET n == IterNext(S, it, dbg)
    IN  IF n.kind = "panic" THEN [ivs |-> acc, panic |-> TRUE]
        ELSE IF n.kind = "none" THEN [ivs |-> acc, panic |-> FALSE]
        ELSE IterRun(S, n.it, Append(acc, n.item), dbg)

iter(S, dbg) == IterRun(S, IterStart, <<>>, dbg)

\* ------------------------------------------------- TineSet set operations
RECURSIVE intersect_outer(_, _, _, _, _, _)
RECURSIVE intersect_segment(_, _, _, _, _, _, _)

\* while let Some(a_interval) = a_intervals.next()
intersect_outer(A, B, ita, itb, intersection, dbg) ==
    LET na == IterNext(A, ita, dbg)
    IN  IF na.kind = "panic" THEN Ret(intersection, TRUE)
        ELSE IF na.kind = "none" THEN Ret(intersection, FALSE)
        ELSE intersect_segment(A, B, na.it, itb, na.item, intersection, dbg)

\* 'segment: loop
intersect_segment(A, B, ita, itb, a_interval, intersection, dbg) ==
    LET nb == IterNext(B, itb, dbg)
    IN  IF nb.kind = "panic" THEN Ret(intersection, TRUE)
        ELSE IF nb.kind = "none" THEN Ret(intersection, FALSE)
        ELSE LET i == IntervalIntersect(a_interval, nb.item)
             IN  IF ~is_empty(i)
                 THEN LET u == union_interval(intersection, i, dbg)
                      IN  IF u.panic THEN u
                          ELSE intersect_segment(A, B, ita, nb.it, a_interval,
                                                 u.set, dbg)
                 ELSE intersect_outer(A, B, ita, nb.it, intersection, dbg)

tineset_intersect(self, other, dbg) ==
    intersect_outer(self, other, IterStart, IterStart, <<>>, dbg)

\* TineSet::is_bounded: both probes are the unbounded lower tine.
is_bounded(S) ==
    LET l_unbounded == Tine(NoPoint, TRUE, FALSE, FALSE)
        u_unbounded == Tine(NoPoint, TRUE, FALSE, FALSE)
    IN  ~BTreeContains(S, l_unbounded) /\ ~BTreeContains(S, u_unbounded)

\* TineSet::union: a clone of self, then union_interval of each interval
\* that iterating other yields.
RECURSIVE union_each(_, _, _, _)
union_each(union, other, it, dbg) ==
    LET n == IterNext(other, it, dbg)
    IN  IF n.kind = "panic" THEN Ret(union, TRUE)
        ELSE IF n.kind = "none" THEN Ret(union, FALSE)
        ELSE LET u == union_interval(union, n.item, dbg)
             IN  IF u.panic THEN u ELSE union_each(u.set, other, n.it, dbg)

tineset_union(self, other, dbg) == union_each(self, other, IterStart, dbg)

\* TineSet::from(interval)
tineset_from(interval, dbg) == union_interval(<<>>, interval, dbg)

\* r.intersect(&other) for the set a call returned, unless that call panicked.
then_intersect(r, other, dbg) ==
    IF r.panic THEN r ELSE tineset_intersect(r.set, other, dbg)

tineset_complement(self, dbg) ==
    then_intersect(tineset_from(Full, dbg), self, dbg)

tineset_minus(self, other, dbg) ==
    then_intersect(tineset_complement(other, dbg), self, dbg)

\* TineSet::lower_bound: the first tine as a lower bound. The flag tells
\* whether into_bound_lower's debug assertion fails.
tineset_lower_bound(self, dbg) ==
    IF self = <<>> THEN [bound |-> NoBound, panic |-> FALSE]
    ELSE [bound |-> into_bound_lower(self[1]), panic |-> dbg /\ ~self[1].lb]

\* TineSet::upper_bound: the last tine as an upper bound.
tineset_upper_bound(self, dbg) ==
    IF self = <<>> THEN [bound |-> NoBound, panic |-> FALSE]
    ELSE [bound |-> into_bound_upper(self[Len(self)]),
          panic |-> dbg /\ ~self[Len(self)].ub]

enclosing_interval(self, dbg) ==
    [interval |-> IntervalNew(tineset_lower_bound(self, dbg).bound,
                              tineset_upper_bound(self, dbg).bound),
     panic |-> tineset_lower_bound(self, dbg).panic
               \/ tineset_upper_bound(self, dbg).panic]

\* The first interval of an iteration over the set a call returned compared
\* with the interval: check == Some(true).
first_is(r, interval, dbg) ==
    IF r.panic THEN [value |-> FALSE, panic |-> TRUE]
    ELSE [value |-> IterNext(r.set, IterStart, dbg).kind = "some"
                    /\ IterNext(r.set, IterStart, dbg).item = interval,
          panic |-> IterNext(r.set, IterStart, dbg).kind = "panic"]

\* self.intersect(&r) for the set a conversion returned, unless it panicked.
intersect_with(self, r, dbg) ==
    IF r.panic THEN r ELSE tineset_intersect(self, r.set, dbg)

contains_interval(self, interval, dbg) ==
    first_is(intersect_with(self, tineset_from(interval, dbg), dbg),
             interval, dbg)

\* closure's map: a tine with a point becomes inclusive.
close_tine(tine) ==
    IF tine.point # NoPoint THEN [tine EXCEPT !.incl = TRUE] ELSE tine

\* The mapped tines, collected into a new BTreeSet.
tineset_closure(self) ==
    Ret(BTreeExtend(<<>>, [i \in 1..Len(self) |-> close_tine(self[i])]), FALSE)

\* ------------------------------------------------ Finite and its Normalize
\* Finite for an integer type whose values are MinT..MaxT.
minimum == MinT
maximum == MaxT
\* A pred that wraps around at the least value instead of returning None.
pred_wrapping(p) == IF p # MinT THEN p - 1 ELSE MaxT

pred(p) == IF p # MinT THEN p - 1 ELSE NoPoint
succ(p) == IF p # MaxT THEN p + 1 ELSE NoPoint

\* Normalize::normalize for RawInterval<T> where T: Finite.
normalize_finite(x) ==
    CASE x.k = "Empty" -> Empty
      [] x.k = "Point" -> Point(x.l)
      [] x.k = "Open" ->
            IF succ(x.l) # NoPoint /\ pred(x.r) # NoPoint
            THEN Closed(succ(x.l), pred(x.r)) ELSE Empty
      [] x.k = "LeftOpen" ->
            IF succ(x.l) # NoPoint THEN Closed(succ(x.l), x.r) ELSE Empty
      [] x.k = "RightOpen" ->
            IF pred(x.r) # NoPoint THEN Closed(x.l, pred(x.r)) ELSE Empty
      [] x.k = "Closed" -> Closed(x.l, x.r)
      [] x.k = "UpTo" ->
            IF pred(x.r) # NoPoint THEN Closed(minimum, pred(x.r)) ELSE Empty
      [] x.k = "UpFrom" ->
            IF succ(x.l) # NoPoint THEN Closed(succ(x.l), maximum) ELSE Empty
      [] x.k = "To" -> Closed(minimum, x.r)
      [] x.k = "From" -> Closed(x.l, maximum)
      [] x.k = "Full" -> Closed(minimum, maximum)

\* The match on (pred, succ) of denormalize for Point and Closed.
denormalize_around(l, r) ==
    IF l # NoPoint /\ r # NoPoint THEN Open(l, r)
    ELSE IF l # NoPoint THEN UpFrom(l)
    ELSE IF r # NoPoint THEN UpTo(r)
    ELSE Full

\* Normalize::denormalize for RawInterval<T> where T: Finite.
denormalize_finite(x) ==
    CASE x.k = "Empty" -> Empty
      [] x.k = "Point" -> denormalize_around(pred(x.l), succ(x.l))
      [] x.k = "Open" -> Open(x.l, x.r)
      [] x.k = "LeftOpen" ->
            IF succ(x.r) # NoPoint THEN Open(x.l, succ(x.r)) ELSE UpFrom(x.l)
      [] x.k = "RightOpen" ->
            IF pred(x.l) # NoPoint THEN Open(pred(x.l), x.r) ELSE UpTo(x.r)
      [] x.k = "Closed" -> denormalize_around(pred(x.l), succ(x.r))
      [] x.k = "UpTo" -> UpTo(x.r)
      [] x.k = "UpFrom" -> UpFrom(x.l)
      [] x.k = "To" -> IF pred(x.r) # NoPoint THEN UpTo(pred(x.r)) ELSE Empty
      [] x.k = "From" ->
            IF succ(x.l) # NoPoint THEN UpFrom(succ(x.l)) ELSE Empty
      [] x.k = "Full" -> Full

\* ------------------------------------------- TineSet over a Finite domain
\* NextLower / NextUpper for a domain that is Right- and LeftIterable.
finite_next_lower(pt) == pred(pt)
finite_next_upper(pt) == succ(pt)

RECURSIVE finite_widen_l(_, _)
finite_widen_l(S, tine) ==
    LET lb == IF tine.point = NoPoint THEN NoPoint
              ELSE finite_next_lower(tine.point)
    IN  IF lb # NoPoint /\ contains_pt(S, lb)
        THEN finite_widen_l(S, [tine EXCEPT !.point = lb])
        ELSE tine

RECURSIVE finite_widen_r(_, _)
finite_widen_r(S, tine) ==
    LET ub == IF tine.point = NoPoint THEN NoPoint
              ELSE finite_next_upper(tine.point)
    IN  IF ub # NoPoint /\ contains_pt(S, ub)
        THEN finite_widen_r(S, [tine EXCEPT !.point = ub])
        ELSE tine

\* widen for the tine of a point: Split::One(pt).
finite_widen_pt(pt, new_l, new_r) ==
    IF new_l.point = new_r.point THEN << pt >> ELSE << new_l, new_r >>

finite_widen(S, pt) ==
    finite_widen_pt(pt,
                    finite_widen_l(S, [pt EXCEPT !.ub = FALSE, !.lb = TRUE]),
                    finite_widen_r(S, [pt EXCEPT !.ub = TRUE, !.lb = FALSE]))

\* from_degenerate_interval with the Finite normalization.
finite_from_degenerate_interval(x) ==
    Tine(infimum(normalize_finite(x)), TRUE, TRUE, TRUE)

\* union_interval of a point interval.
finite_union_interval(S, interval, dbg) ==
    union_tines(S, finite_widen(S, finite_from_degenerate_interval(interval)),
                dbg)

\* ---------------------------------------------------------- state machine
VARIABLES
    debug,      \* whether debug assertions are compiled in (the build profile)
    sel,        \* the TineSet of the selection (ascending tines)
    prev,       \* sel as it was before the last union_interval
    ins,        \* the intervals passed to union_interval so far, in order
    other,      \* the TineSet of a second selection, the operand
    res,        \* the TineSet returned by the last set operation
    op,         \* the last operation called
    panicked,   \* whether the last operation ended in a panic
    answer,     \* the bool returned by the last query
    call,       \* a call of an interval function: its name and arguments
    ret         \* the interval that call returned

vars == << debug, sel, prev, ins, other, res, op, panicked, answer, call, ret >>

\* No interval function is being called.
NoCall == call = [f |-> "none", a |-> <<>>] /\ ret = Empty

\* Selection::empty(), in either build profile.
Init ==
    /\ debug \in BOOLEAN
    /\ sel = <<>>
    /\ prev = <<>>
    /\ ins = <<>>
    /\ other = <<>>
    /\ res = <<>>
    /\ op = "empty"
    /\ panicked = FALSE
    /\ answer = FALSE
    /\ NoCall

\* Selection::union_interval(interval)
UnionInterval(interval) ==
    /\ ~panicked
    /\ Len(ins) < MaxIns
    /\ LET u == union_interval(sel, interval, debug)
       IN  /\ sel' = u.set
           /\ panicked' = u.panic
    /\ prev' = sel
    /\ ins' = Append(ins, interval)
    /\ op' = "union_interval"
    /\ UNCHANGED << debug, other, res, answer, call, ret >>

Next == \E interval \in Intervals : UnionInterval(interval)

Spec == Init /\ [][Next]_vars

\* ------------------------------------- unit intervals over a Finite domain
\* The single-point intervals over the integer type.
Units == {Point(p) : p \in MinT..MaxT}

\* Selection::union_interval(interval) of a single point, over the integers.
UnionUnit(interval) ==
    /\ ~panicked
    /\ Len(ins) < MaxIns
    /\ sel' = finite_union_interval(sel, interval, debug).set
    /\ panicked' = finite_union_interval(sel, interval, debug).panic
    /\ prev' = sel
    /\ ins' = Append(ins, interval)
    /\ op' = "union_interval"
    /\ UNCHANGED << debug, other, res, answer, call, ret >>

NextUnits == \E interval \in Units : UnionUnit(interval)

SpecUnits == Init /\ [][NextUnits]_vars

\* ------------------------------------------------- chains of open intervals
\* The open intervals over NumChainEnds endpoint values.
ChainEnds == {2 * i - 1 : i \in 1..NumChainEnds}
OpenIntervals == {open(l, r) : l, r \in ChainEnds} \ {Empty}

NextChain == \E interval \in OpenIntervals : UnionInterval(interval)

SpecChain == Init /\ [][NextChain]_vars

\* ----------------------------------------- set operations on two selections

\* The tine sets Selection::from_intervals returns for those lists (the
\* calls that panic return nothing).
Constructed(rets) == {r.set : r \in {x \in rets : ~x.panic}}
FromIntervalsSets(dbg) ==
    Constructed({from_intervals(q, dbg) : q \in BuildLists})

\* Two selections, each constructed by Selection::from_intervals.
InitOps ==
    /\ debug \in BOOLEAN
    /\ sel \in FromIntervalsSets(debug)
    /\ other \in FromIntervalsSets(debug)
    /\ prev = <<>>
    /\ ins = <<>>
    /\ res = <<>>
    /\ op = "from_intervals"
    /\ panicked = FALSE
    /\ answer = FALSE
    /\ NoCall

\* A set operation returns its TineSet, or panics and returns nothing.
Returns(r, name) ==
    /\ res' = IF r.panic THEN res ELSE r.set
    /\ panicked' = r.panic
    /\ op' = name
    /\ UNCHANGED << debug, sel, prev, ins, other, answer, call, ret >>

\* sel.intersect(&other)
Intersect ==
    /\ op = "from_intervals"
    /\ Returns(tineset_intersect(sel, other, debug), "intersect")

\* sel.union(&other)
Union ==
    /\ op = "from_intervals"
    /\ Returns(tineset_union(sel, other, debug), "union")

\* sel.is_bounded()
IsBounded ==
    /\ op = "from_intervals"
    /\ answer' = is_bounded(sel)
    /\ op' = "is_bounded"
    /\ UNCHANGED << debug, sel, prev, ins, other, res, panicked, call, ret >>

\* sel.complement()
Complement ==
    /\ op = "from_intervals"
    /\ Returns(tineset_complement(sel, debug), "complement")

\* sel.complement().complement(): the complement of the returned complement
ComplementAgain ==
    /\ op = "complement"
    /\ ~panicked
    /\ Returns(tineset_complement(res, debug), "complement_complement")

\* sel.minus(&other)
Minus ==
    /\ op = "from_intervals"
    /\ Returns(tineset_minus(sel, other, debug), "minus")

\* sel.closure()
Closure ==
    /\ op = "from_intervals"
    /\ Returns(tineset_closure(sel), "closure")

\* A query returns its interval, or panics and returns nothing.
ReturnsInterval(r, name) ==
    /\ ret' = IF r.panic THEN ret ELSE r.interval
    /\ panicked' = r.panic
    /\ op' = name
    /\ UNCHANGED << debug, sel, prev, ins, other, res, answer, call >>

\* sel.enclosing_interval()
EnclosingInterval ==
    /\ op = "from_intervals"
    /\ ReturnsInterval(enclosing_interval(sel, debug), "enclosing_interval")

NextOps ==
    \/ Intersect
    \/ Union
    \/ IsBounded
    \/ Complement
    \/ ComplementAgain
    \/ Minus
    \/ Closure
    \/ EnclosingInterval

SpecOps == InitOps /\ [][NextOps]_vars

\* ------------------------------------------------- queries with an interval
\* A selection constructed by Selection::from_intervals and a non-empty
\* interval to ask it about.
InitQuery ==
    /\ debug \in BOOLEAN
    /\ sel \in FromIntervalsSets(debug)
    /\ other = <<>>
    /\ prev = <<>>
    /\ ins = <<>>
    /\ res = <<>>
    /\ op = "from_intervals"
    /\ panicked = FALSE
    /\ answer = FALSE
    /\ call \in {[f |-> "contains_interval", a |-> << x >>] :
                    x \in Intervals \ {Empty}}
    /\ ret = Empty

\* sel.contains_interval(&interval)
ContainsInterval ==
    /\ op = "from_intervals"
    /\ call.f = "contains_interval"
    /\ answer' = contains_interval(sel, call.a[1], debug).value
    /\ panicked' = contains_interval(sel, call.a[1], debug).panic
    /\ op' = "contains_interval"
    /\ UNCHANGED << debug, sel, prev, ins, other, res, call, ret >>

NextQuery == ContainsInterval

SpecQuery == InitQuery /\ [][NextQuery]_vars

\* ------------------------------------------- calls of RawInterval functions
\* The bounds over the endpoint values.
Bounds ==
    {Include(p) : p \in Ends} \cup {Exclude(p) : p \in Ends} \cup {Infinite}

Call(f, a) == [f |-> f, a |-> a]

\* The calls of the bound-pair constructor, with any two bounds.
NewCalls == {Call("new", << l, u >>) : l, u \in Bounds}

\* The calls of the bounded constructors, with any two endpoint values.
ConstructorCalls ==
    {Call(f, << l, u >>) :
        f \in {"open", "left_open", "right_open", "closed"}, l, u \in Ends}

\* The calls of intersect and enclose, with any two raw intervals.
PairCalls ==
    {Call(f, << x, y >>) : f \in {"intersect", "enclose"}, x, y \in Intervals}

\* The calls of enclose_all, with any list of at most MaxBuild intervals.
ListCalls == {Call("enclose_all", << q >>) : q \in BuildLists}

\* The calls of Display::fmt, with any raw interval.
DisplayCalls == {Call("fmt", << x >>) : x \in Intervals}

\* No selection is involved.
NoSelection ==
    /\ debug = FALSE
    /\ sel = <<>>
    /\ prev = <<>>
    /\ ins = <<>>
    /\ other = <<>>
    /\ res = <<>>
    /\ panicked = FALSE
    /\ answer = FALSE

\* A call about to be made.
InitRaw ==
    /\ NoSelection
    /\ \/ call \in NewCalls
       \/ call \in ConstructorCalls
       \/ call \in PairCalls
       \/ call \in ListCalls
       \/ call \in DisplayCalls
    /\ ret = Empty
    /\ op = "call"

\* The call named f returns value.
RawReturns(f, value) ==
    /\ op = "call"
    /\ call.f = f
    /\ ret' = value
    /\ op' = "return"
    /\ UNCHANGED << debug, sel, prev, ins, other, res, panicked, answer, call >>

RawNew == RawReturns("new", new(call.a[1], call.a[2]))
RawOpen == RawReturns("open", open(call.a[1], call.a[2]))
RawLeftOpen == RawReturns("left_open", left_open(call.a[1], call.a[2]))
RawRightOpen == RawReturns("right_open", right_open(call.a[1], call.a[2]))
RawClosed == RawReturns("closed", closed(call.a[1], call.a[2]))

RawIntersect == RawReturns("intersect", intersect(call.a[1], call.a[2]))
RawEnclose == RawReturns("enclose", enclose(call.a[1], call.a[2]))
RawEncloseAll == RawReturns("enclose_all", enclose_all(call.a[1]))

\* fmt writes the text of the interval; ret holds what was written.
RawDisplay == RawReturns("fmt", fmt(call.a[1]))

NextRaw ==
    \/ RawNew
    \/ RawOpen
    \/ RawLeftOpen
    \/ RawRightOpen
    \/ RawClosed
    \/ RawIntersect
    \/ RawEnclose
    \/ RawEncloseAll
    \/ RawDisplay

SpecRaw == InitRaw /\ [][NextRaw]_vars

\* ------------------------------------- normalization over the finite domain
\* The values of the finite integer type.
FinT == MinT..MaxT

\* The raw intervals over the finite type: each variant, its parameters
\* satisfying the variant's invariant.
FiniteIntervals ==
    {Empty, Full}
    \cup {Point(p) : p \in FinT}
    \cup {Open(l, r) : l, r \in FinT} \cup {LeftOpen(l, r) : l, r \in FinT}
    \cup {RightOpen(l, r) : l, r \in FinT} \cup {Closed(l, r) : l, r \in FinT}
    \cup {UpTo(p) : p \in FinT} \cup {UpFrom(p) : p \in FinT}
    \cup {To(p) : p \in FinT} \cup {From(p) : p \in FinT}

WellFormedIntervals ==
    {x \in FiniteIntervals :
        x.k \in {"Open", "LeftOpen", "RightOpen", "Closed"} => x.l < x.r}

\* A normalize or denormalize call about to be made on a raw interval.
InitFinite ==
    /\ NoSelection
    /\ call \in {Call(f, << x >>) :
                    f \in {"normalize", "denormalize"},
                    x \in WellFormedIntervals}
    /\ ret = Empty
    /\ op = "call"

Normalize == RawReturns("normalize", normalize_finite(call.a[1]))
Denormalize == RawReturns("denormalize", denormalize_finite(call.a[1]))

NextFinite == Normalize \/ Denormalize

SpecFinite == InitFinite /\ [][NextFinite]_vars

\* ------------------------------------------------------------- properties
\* Whether some interval of the sequence contains the point.
Covers(ivs, p) == \E i \in 1..Len(ivs) : contains(ivs[i], p)

\* A complete iteration over the tine set hits neither an expect nor a debug
\* assertion, so it runs alike with and without debug assertions.
IterClean(S) == ~iter(S, TRUE).panic

\* The intervals a complete iteration over the tine set yields in this build.
Yielded(S) == iter(S, debug).ivs

\* The selection is the result of union_interval calls that all returned.
Built == op \in {"empty", "union_interval"} /\ ~panicked

\* The sequence q reordered by the permutation f of its indices.
Permuted(q, f) == [i \in 1..Len(q) |-> q[f[i]]]
Orders(n) ==
    {f \in [1..n -> 1..n] : \A i, j \in 1..n : f[i] = f[j] => i = j}

\* C1. Iteration faithfulness: for a selection built by union_interval calls
\* whose iteration runs to its end, contains(p) is true exactly for the
\* points p that some yielded interval contains.
C1_IterationFaithful ==
    (Built /\ IterClean(sel)) =>
        \A p \in Dom : contains_pt(sel, p) <=> Covers(Yielded(sel), p)

\* C2. union_interval inserts exactly the points of the interval: after a
\* call that returned, on a selection whose iteration runs to its end before
\* and after the call, the yielded intervals contain p exactly when they did
\* before the call or the inserted interval contains p.
C2_UnionInsertsExactly ==
    (Built /\ op = "union_interval" /\ IterClean(prev) /\ IterClean(sel)) =>
        \A p \in Dom :
            Covers(Yielded(sel), p)
                <=> (Covers(Yielded(prev), p) \/ contains(ins[Len(ins)], p))

\* C3. Union canonicality: inserting the intervals inserted so far in any
\* other order (when that order's calls all return too) gives the same
\* stored tine set.
C3_UnionCanonical ==
    Built =>
        \A f \in Orders(Len(ins)) :
            LET r == from_intervals(Permuted(ins, f), debug)
            IN  ~r.panic => r.set = sel

\* Two intervals share no point and neither could be merged with the other.
Apart(x, y) == is_empty(intersect(x, y)) /\ ~adjacent(x, y)

\* Every point of x lies below every point of y.
Below(x, y) ==
    /\ upper_bound(x).b \in {"Include", "Exclude"}
    /\ lower_bound(y).b \in {"Include", "Exclude"}
    /\ supremum(x) <= infimum(y)

\* C4. Iteration over a selection built by union_interval calls yields
\* non-empty intervals, in ascending order, pairwise disjoint and not
\* adjacent.
C4_IterationCanonical ==
    Built =>
        LET ivs == Yielded(sel)
        IN  /\ \A i \in 1..Len(ivs) : ~is_empty(ivs[i])
            /\ \A i, j \in 1..Len(ivs) :
                   i < j => (Below(ivs[i], ivs[j]) /\ Apart(ivs[i], ivs[j]))

\* Iteration is canonical whenever it ends without a panic.
IterationCanonicalWhenClean == IterClean(sel) => C4_IterationCanonical

\* C5. No errors: a complete iteration over a selection built by
\* union_interval calls ends without an expect or assertion failure.
C5_IterationNoPanic == Built => IterClean(sel)

\* A canonical selection: iterating it ends without a panic and yields
\* non-empty intervals, ascending and apart.
Canonical(S) ==
    /\ IterClean(S)
    /\ LET ivs == iter(S, TRUE).ivs
       IN  /\ \A i \in 1..Len(ivs) : ~is_empty(ivs[i])
           /\ \A i, j \in 1..Len(ivs) :
                  i < j => (Below(ivs[i], ivs[j]) /\ Apart(ivs[i], ivs[j]))

\* The operation op returned a selection that can be iterated.
Returned(name) == op = name /\ ~panicked /\ IterClean(res)

\* C6. Selection intersect is the set intersection: for canonical selections
\* a and b, an interval of a.intersect(b) contains a point exactly when an
\* interval of a and an interval of b contain it.
C6_IntersectIsSetIntersection ==
    (Returned("intersect") /\ Canonical(sel) /\ Canonical(other)) =>
        \A p \in Dom : Covers(Yielded(res), p)
            <=> (Covers(Yielded(sel), p) /\ Covers(Yielded(other), p))

\* C7. Selection intersect is commutative: a.intersect(b) and b.intersect(a)
\* are the same selection (the same tines).
C7_IntersectCommutative ==
    (Returned("intersect") /\ Canonical(sel) /\ Canonical(other)) =>
        LET r == tineset_intersect(other, sel, debug)
        IN  ~r.panic /\ r.set = res

\* C8. Selection complement contains exactly the points not in the selection:
\* an interval of s.complement() contains a point exactly when no interval
\* of s contains it.
C8_ComplementExact ==
    (Returned("complement") /\ Canonical(sel)) =>
        \A p \in Dom : Covers(Yielded(res), p) <=> ~Covers(Yielded(sel), p)

\* C9. Complement involution: for every selection a, a.complement() and
\* then its complement() return, and the second returns a again.
C9_ComplementInvolution ==
    /\ op = "complement" => ~panicked
    /\ op = "complement_complement" => (~panicked /\ res = sel)

\* C10. Selection minus is the set difference: an interval of a.minus(b)
\* contains a point exactly when an interval of a contains it and no
\* interval of b does.
C10_MinusIsDifference ==
    (Returned("minus") /\ Canonical(sel) /\ Canonical(other)) =>
        \A p \in Dom : Covers(Yielded(res), p)
            <=> (Covers(Yielded(sel), p) /\ ~Covers(Yielded(other), p))

\* Complement involution on the canonical selections only.
ComplementInvolutionCanonical ==
    Canonical(sel) => C9_ComplementInvolution

\* The tine set of the selection holding the full interval.
FullSet == tineset_from(Full, debug).set

\* C11. Empty and full are identity / annihilator elements: for every
\* selection x, empty.union(x) is x, empty.intersect(x) is empty,
\* full.union(x) is full and full.intersect(x) is x (each call returns).
C11_EmptyFullIdentities ==
    /\ (op = "union" /\ sel = <<>>) => (~panicked /\ res = other)
    /\ (op = "intersect" /\ sel = <<>>) => (~panicked /\ res = <<>>)
    /\ (op = "union" /\ sel = FullSet) => (~panicked /\ res = FullSet)
    /\ (op = "intersect" /\ sel = FullSet) => (~panicked /\ res = other)

\* The same identities for the canonical selections x only.
EmptyFullIdentitiesCanonical == Canonical(other) => C11_EmptyFullIdentities

\* Some yielded interval has no finite lower bound / upper bound.
UnboundedBelow(ivs) ==
    \E i \in 1..Len(ivs) : lower_bound(ivs[i]).b = "Infinite"
UnboundedAbove(ivs) ==
    \E i \in 1..Len(ivs) : upper_bound(ivs[i]).b = "Infinite"

\* C12. is_bounded() is true exactly when the selection has neither an
\* unbounded lower end nor an unbounded upper end.
C12_IsBounded ==
    (op = "is_bounded" /\ Canonical(sel)) =>
        (answer <=> (~UnboundedBelow(Yielded(sel))
                        /\ ~UnboundedAbove(Yielded(sel))))

\* The call named f has returned.
Returned1(f) == op = "return" /\ call.f = f

\* Two finite bounds at one point.
Coincide(l, u) == l.b # "Infinite" /\ u.b # "Infinite" /\ l.v = u.v

\* C13. Bound-coincidence table: new(Include(p), Include(p)) is Point(p),
\* new with two bounds at p of which one is exclusive is Empty, and every
\* bounded constructor returns Empty for l > u.
C13_BoundCoincidence ==
    /\ (Returned1("new") /\ Coincide(call.a[1], call.a[2])) =>
           ret = (IF is_inclusive(call.a[1]) /\ is_inclusive(call.a[2])
                  THEN Point(call.a[1].v) ELSE Empty)
    /\ (op = "return"
           /\ call.f \in {"open", "left_open", "right_open", "closed"}
           /\ call.a[1] > call.a[2]) => ret = Empty

\* The points of the finite type that a raw interval contains.
FinitePoints(x) == {p \in FinT : contains(x, p)}

\* C14. Containment-preserving normalization: over the finite domain, a
\* raw interval and its normalized form contain the same points.
C14_NormalizeContains ==
    Returned1("normalize") => FinitePoints(ret) = FinitePoints(call.a[1])

\* Normalization rewrote an open interval as the closed one inside it.
C14_Witness ==
    /\ Returned1("normalize")
    /\ call.a[1].k = "Open"
    /\ ret.k = "Closed"
    /\ ret.l < ret.r

\* C15. Normalization yields a well-formed canonical variant: Empty, Point,
\* Closed(l, r) with l <= r, or Full; an interval left without a point is
\* the Empty variant.
C15_NormalizeCanonical ==
    Returned1("normalize") =>
        /\ ret.k \in {"Empty", "Point", "Closed", "Full"}
        /\ ret.k = "Closed" => ret.l <= ret.r
        /\ FinitePoints(call.a[1]) = {} => ret = Empty

\* C16. Denormalization presents the same point set: a raw interval and
\* its denormalized form contain the same points of the finite domain, and
\* so do their normalized forms.
C16_DenormalizeContains ==
    Returned1("denormalize") =>
        /\ FinitePoints(ret) = FinitePoints(call.a[1])
        /\ FinitePoints(normalize_finite(ret))
               = FinitePoints(normalize_finite(call.a[1]))

\* The points that a raw interval over the endpoint values contains.
Points(x) == {p \in Dom : contains(x, p)}

\* C17. Raw interval intersect is the set intersection: the result contains
\* a point exactly when both intervals contain it, and it is the Empty
\* variant whenever the two share no point.
C17_RawIntersect ==
    Returned1("intersect") =>
        /\ Points(ret) = Points(call.a[1]) \cap Points(call.a[2])
        /\ Points(call.a[1]) \cap Points(call.a[2]) = {} => ret = Empty

\* Two intervals that meet at one point, which only one of them contains,
\* were intersected.
C17_Witness ==
    /\ Returned1("intersect")
    /\ adjacent(call.a[1], call.a[2])
    /\ ret = Empty

\* C18. Enclosure minimality: a.enclose(b) contains every point of a and
\* of b, every raw interval that contains them all contains the points of
\* a.enclose(b), and enclosing with Empty returns the other interval.
C18_EncloseMinimal ==
    Returned1("enclose") =>
        /\ Points(call.a[1]) \cup Points(call.a[2]) \subseteq Points(ret)
        /\ \A z \in Intervals :
               (Points(call.a[1]) \cup Points(call.a[2]) \subseteq Points(z))
                   => Points(ret) \subseteq Points(z)
        /\ call.a[1] = Empty => ret = call.a[2]
        /\ call.a[2] = Empty => ret = call.a[1]

\* Two intervals with a gap between them were enclosed in an interval that
\* is neither of them.
C18_Witness ==
    /\ Returned1("enclose")
    /\ Apart(call.a[1], call.a[2])
    /\ ~is_empty(call.a[1])
    /\ ~is_empty(call.a[2])
    /\ ret \notin {call.a[1], call.a[2], Full}

\* The points of all the intervals of a list.
AllPoints(q) == UNION {Points(q[i]) : i \in 1..Len(q)}

\* C19. enclose_all returns the smallest raw interval that contains every
\* point of every given interval.
C19_EncloseAll ==
    Returned1("enclose_all") =>
        /\ AllPoints(call.a[1]) \subseteq Points(ret)
        /\ \A z \in Intervals :
               AllPoints(call.a[1]) \subseteq Points(z)
                   => Points(ret) \subseteq Points(z)

\* The finite endpoints of the intervals of a sequence.
Endpoints(ivs) ==
    {p \in Ends : \E i \in 1..Len(ivs) : p \in {ivs[i].l, ivs[i].r}}

\* The closure of the points of the canonical selection S: its points and
\* the finite endpoints of its intervals.
ClosurePoints(S) ==
    {p \in Dom : Covers(iter(S, TRUE).ivs, p)} \cup Endpoints(iter(S, TRUE).ivs)

\* An interval whose finite endpoints are all inclusive.
IsClosed(x) == x.k \in {"Point", "Closed", "To", "From", "Full"}

\* The closure of a canonical selection returned a selection that can be
\* iterated and that contains exactly the closure of its points.
ClosureExact ==
    (Canonical(sel) /\ op = "closure") =>
        /\ Returned("closure")
        /\ {p \in Dom : Covers(Yielded(res), p)} = ClosurePoints(sel)

\* C20. Selection closure of a canonical selection is the smallest closed
\* selection containing its points, in canonical form: every finite endpoint
\* of a yielded interval is inclusive, the yielded intervals are pairwise
\* disjoint, and where two intervals (a,p) and (p,b) abutted at an excluded
\* point p the result stores no tine at p.
C20_ClosureCanonical ==
    (Canonical(sel) /\ op = "closure") =>
        /\ ClosureExact
        /\ \A i \in 1..Len(Yielded(res)) : IsClosed(Yielded(res)[i])
        /\ \A i, j \in 1..Len(Yielded(res)) :
               i < j => is_empty(intersect(Yielded(res)[i], Yielded(res)[j]))
        /\ \A i \in 1..Len(sel) :
               (sel[i].lb /\ sel[i].ub /\ ~sel[i].incl)
                   => \A j \in 1..Len(res) : res[j].point # sel[i].point

\* The points of the domain that some yielded interval of S contains.
SelectionPoints(S) == {p \in Dom : Covers(iter(S, TRUE).ivs, p)}

\* The enclosing interval of a canonical selection with at least one
\* interval: it takes its lower bound from the first yielded interval and
\* its upper bound from the last, and it is the smallest interval containing
\* the points of the selection.
EnclosingNonEmpty ==
    (Canonical(sel) /\ sel # <<>> /\ op = "enclosing_interval") =>
        /\ ~panicked
        /\ lower_bound(ret) = lower_bound(Yielded(sel)[1])
        /\ upper_bound(ret) = upper_bound(Yielded(sel)[Len(Yielded(sel))])
        /\ SelectionPoints(sel) \subseteq Points(ret)
        /\ \A z \in Intervals :
               SelectionPoints(sel) \subseteq Points(z)
                   => Points(ret) \subseteq Points(z)

\* C21. enclosing_interval() returns the smallest interval containing all
\* points of the selection: its bounds are the lower bound of the first
\* yielded interval and the upper bound of the last, and for the empty
\* selection it is the empty interval.
C21_EnclosingInterval ==
    /\ EnclosingNonEmpty
    /\ (sel = <<>> /\ op = "enclosing_interval") => (~panicked /\ ret = Empty)

\* C22. contains_interval(iv) tells whether the selection contains all of
\* the points of the non-empty interval iv: for a canonical selection it
\* returns, and it is true exactly when every point of iv lies in some
\* yielded interval of the selection.
C22_ContainsInterval ==
    (Canonical(sel) /\ op = "contains_interval") =>
        /\ ~panicked
        /\ answer <=> (Points(call.a[1]) \subseteq SelectionPoints(sel))

\* C23. The printable form reflects each variant's brackets: To(p) is
\* written "(-inf, p]", From(p) "[p, inf)", UpTo(p) "(-inf, p)" and UpFrom(p)
\* "(p, inf)", and no other variant with the same parameters is written as
\* the same text.
C23_DisplayBrackets ==
    Returned1("fmt") =>
        LET x == call.a[1]
        IN  /\ x.k = "To" => ret = "(-inf, " \o ToString(x.r) \o "]"
            /\ x.k = "From" => ret = "[" \o ToString(x.l) \o ", inf)"
            /\ x.k = "UpTo" => ret = "(-inf, " \o ToString(x.r) \o ")"
            /\ x.k = "UpFrom" => ret = "(" \o ToString(x.l) \o ", inf)"
            /\ \A y \in Intervals :
                   (y.k # x.k /\ y.l = x.l /\ y.r = x.r) => fmt(y) # ret

\* The intervals inserted so far are single points, no two of them equal.
DistinctPoints ==
    /\ \A i \in 1..Len(ins) : ins[i].k = "Point"
    /\ \A i, j \in 1..Len(ins) : i # j => ins[i] # ins[j]

\* C24. Over a domain without successor and predecessor, after distinct
\* single-point intervals were inserted with union_interval, the calls
\* returned, every point is stored as a point-only tine (lb and ub false,
\* incl true), and a complete iteration yields exactly the inserted points
\* as single-point intervals in ascending order.
C24_DistinctPoints ==
    (op \in {"empty", "union_interval"} /\ DistinctPoints) =>
        /\ ~panicked
        /\ Len(sel) = Len(ins)
        /\ \A i \in 1..Len(sel) :
               ~sel[i].lb /\ ~sel[i].ub /\ sel[i].incl
        /\ ~iter(sel, debug).panic
        /\ Len(Yielded(sel)) = Len(ins)
        /\ \A i \in 1..Len(ins) :
               \E j \in 1..Len(Yielded(sel)) : Yielded(sel)[j] = ins[i]
        /\ \A i, j \in 1..Len(Yielded(sel)) :
               i < j => Yielded(sel)[i].l < Yielded(sel)[j].l

\* The points inserted so far are all the points of a run n, n+1, ..., n+k,
\* each inserted once.
IsRun ==
    /\ ins # <<>>
    /\ DistinctPoints
    /\ \A v \in MinT..MaxT :
           (\E a, b \in 1..Len(ins) : ins[a].l <= v /\ v <= ins[b].l)
               => \E j \in 1..Len(ins) : ins[j].l = v

\* The least and the greatest point inserted.
RunLow ==
    CHOOSE v \in MinT..MaxT :
        /\ \E i \in 1..Len(ins) : ins[i].l = v
        /\ \A i \in 1..Len(ins) : v <= ins[i].l
RunHigh ==
    CHOOSE v \in MinT..MaxT :
        /\ \E i \in 1..Len(ins) : ins[i].l = v
        /\ \A i \in 1..Len(ins) : v >= ins[i].l

\* C25. Over an integer domain, after the single points n, n+1, ..., n+k
\* (two or more) were inserted with union_interval in any order, the calls
\* returned and a complete iteration yields exactly one interval, the closed
\* run [n, n+k].
C25_UnitsCollapse ==
    (op = "union_interval" /\ IsRun /\ Len(ins) >= 2) =>
        /\ ~panicked
        /\ ~iter(sel, debug).panic
        /\ Yielded(sel) = << closed(RunLow, RunHigh) >>

\* The intervals inserted so far are among (a,p), (p,b) and the point {p},
\* each inserted at most once.
GapFilling(a, p, b) ==
    /\ op = "union_interval"
    /\ \A i \in 1..Len(ins) : ins[i] \in {Open(a, p), Open(p, b), Point(p)}
    /\ \A i, j \in 1..Len(ins) : i # j => ins[i] # ins[j]

\* C26. A point fills a gap: when the open intervals (a,p) and (p,b) and
\* the point {p}, a < p < b, are inserted with union_interval in any order,
\* every call returns, and after the third a complete iteration yields
\* exactly the single interval (a,b).
C26_PointFillsGap ==
    \A a, p, b \in Ends :
        (a < p /\ p < b /\ GapFilling(a, p, b)) =>
            /\ ~panicked
            /\ Len(ins) = 3 =>
                   /\ ~iter(sel, debug).panic
                   /\ Yielded(sel) = << Open(a, b) >>

\* The same, for the orders in which the point is inserted last.
PointFillsGapLast ==
    (\A i \in 1..Len(ins) : i < 3 => ins[i].k # "Point") => C26_PointFillsGap

\* The same, in a build without debug assertions.
PointFillsGapRelease == ~debug => C26_PointFillsGap

\* The interval inserted last lies inside one interval that the selection
\* yielded before the call.
Absorbed ==
    /\ op = "union_interval"
    /\ IterClean(prev)
    /\ \E i \in 1..Len(iter(prev, TRUE).ivs) :
           Points(ins[Len(ins)]) \subseteq Points(iter(prev, TRUE).ivs[i])

\* C27. Absorption leaves the selection unchanged: when every point of the
\* inserted interval already lies inside a single interval of the
\* selection, union_interval returns and the stored tine set is the one
\* before the call.
C27_AbsorptionUnchanged == Absorbed => (~panicked /\ sel = prev)

\* Absorption into a canonical selection.
AbsorptionCanonical == Canonical(prev) => C27_AbsorptionUnchanged

\* C28. The merged-inclusive tine is never stored: after any sequence of
\* union_interval calls no stored tine has lb, ub and incl all true.
C28_MergedInclusiveNeverStored ==
    op \in {"empty", "union_interval"} =>
        \A i \in 1..Len(sel) : ~(sel[i].lb /\ sel[i].ub /\ sel[i].incl)

\* C29. The join assertions of union_normal always hold: whenever the merged
\* lower tine is absent the tine before the split exists and has lb, and
\* whenever the merged upper tine is absent the tine after the split exists
\* and has ub. These are the only assertions of union_interval that the
\* tines of an interval can fail, so in a build with debug assertions no
\* union_interval call panics.
C29_JoinAssertionsHold ==
    (debug /\ op = "union_interval") => ~panicked

\* Each of the given intervals was inserted once, in some order, and nothing
\* else was.
InsertedExactly(ivs) ==
    /\ op = "union_interval"
    /\ Len(ins) = Cardinality(ivs)
    /\ {ins[i] : i \in 1..Len(ins)} = ivs

\* Each interval inserted so far is one of the given intervals, inserted once.
InsertingSome(ivs) ==
    /\ op = "union_interval"
    /\ \A i \in 1..Len(ins) : ins[i] \in ivs
    /\ \A i, j \in 1..Len(ins) : i # j => ins[i] # ins[j]

\* Open intervals abutting at an excluded point stay separate, as far as
\* the stored tines and the iteration go: (a,p) and (p,b) inserted in either
\* order store the tine (p, lb, ub) between the tines of a and b and iterate
\* as (a,p), (p,b); a chain (a,p), (p,q), (q,b) inserted in any order
\* iterates as the three intervals.
AbuttingIterates ==
    \A a, p, q, b \in ChainEnds :
        (a < p /\ p < q /\ q <= b) =>
            /\ InsertingSome({Open(a, p), Open(p, q), Open(q, b)})
                   => ~panicked
            /\ InsertedExactly({Open(a, p), Open(p, q)}) =>
                   /\ sel = << Tine(a, TRUE, FALSE, FALSE),
                               Tine(p, TRUE, TRUE, FALSE),
                               Tine(q, FALSE, TRUE, FALSE) >>
                   /\ ~iter(sel, debug).panic
                   /\ Yielded(sel) = << Open(a, p), Open(p, q) >>
            /\ (q < b /\ InsertedExactly({Open(a, p), Open(p, q), Open(q, b)}))
                   => /\ ~iter(sel, debug).panic
                      /\ Yielded(sel) = << Open(a, p), Open(p, q), Open(q, b) >>

\* C30. Open intervals abutting at an excluded point stay separate: (a,p)
\* and (p,b) inserted in either order store one touching-exclusive tine at p,
\* iterate as exactly (a,p), (p,b), and the selection does not contain p; a
\* chain of three inserted in any order iterates as the three intervals.
C30_AbuttingOpenStaySeparate ==
    /\ AbuttingIterates
    /\ \A a, p, b \in ChainEnds :
           (a < p /\ p < b /\ InsertedExactly({Open(a, p), Open(p, b)}))
               => ~contains_pt(sel, p)

====
